---- MODULE Spec2Model ----
(***************************************************************************)
(* A model of Vehicle.py: Engine, the abstract Vehicle base with its       *)
(* validators, the movement mixin, and the four concrete kinds             *)
(* Motorcycle, Bus, Car and SportsCar.                                     *)
(*                                                                         *)
(* Python objects live in two heaps: `engines` (Engine instances) and      *)
(* `vehicles` (instances of the concrete kinds).  A vehicle's `engine`     *)
(* field is a reference: an index into `engines`.  Class attributes set    *)
(* on Car and its subclasses are kept in `model_produced`.  `last` and     *)
(* `drives` are history variables recording the most recent call.          *)
(***************************************************************************)
EXTENDS Integers, Sequences, FiniteSets, TLC

VARIABLES
    engines,         \* heap of Engine objects: Seq([horsepower, engine_type])
    vehicles,        \* heap of vehicle objects, in order of construction
    model_produced,  \* class -> value, for the classes that own the attribute
    last,            \* history: the most recent call and its outcome
    drives           \* history: the current run of identical successful drive() calls

vars == <<engines, vehicles, model_produced, last, drives>>

-----------------------------------------------------------------------------
(* Bounds of the model *)

MaxEngines == 2
MaxVehicles == 2
MaxSpeed == 120
MaxOdometer == 75
MaxHorsepower == 150
\* datetime.now().year, read by _validate_year at every construction
CurrentYear == 2026

(* Program constants *)

MinYear == 1900
MinGear == 1
MaxGear == 6
RideSpeed == 60

-----------------------------------------------------------------------------
(* Python plumbing *)

\* No exception was raised.
NoExc == "no exception"
\* The value of a call that returns nothing.
None == "None"

\* `x in lst` for a Python list
In(x, lst) == \E k \in 1..Len(lst) : lst[k] = x

\* `not value` for a str
Falsy(value) == value = ""

\* Outcome of a call on an object: the exception raised (or NoExc), the value
\* returned, and the object as the call leaves it.
Raise(msg, self) == [exc |-> msg, ret |-> None, obj |-> self]
Return(val, self) == [exc |-> NoExc, ret |-> val, obj |-> self]

-----------------------------------------------------------------------------
(* Engine *)

valid_types == <<"2-stroke", "4-stroke", "electric", "diesel">>

\* Engine.__init__ with the horsepower test written `< 0`.
Engine_init_lt(horsepower, engine_type) ==
    IF horsepower < 0
    THEN Raise("Horsepower must be positive.", <<>>)
    ELSE IF ~In(engine_type, valid_types)
    THEN Raise("Invalid engine type.", <<>>)
    ELSE Return(None, [horsepower |-> horsepower, engine_type |-> engine_type])

Engine_init(horsepower, engine_type) ==
    IF horsepower <= 0
    THEN Raise("Horsepower must be positive.", <<>>)
    ELSE IF ~In(engine_type, valid_types)
    THEN Raise("Invalid engine type.", <<>>)
    ELSE Return(None, [horsepower |-> horsepower, engine_type |-> engine_type])

-----------------------------------------------------------------------------
(* Vehicle: validators and base constructor *)

\* Each validator yields the message of the ValueError it raises, or NoExc.
validate_nonempty(value, field) ==
    IF Falsy(value) THEN field \o " cannot be empty." ELSE NoExc

validate_year(year) ==
    LET current_year == CurrentYear
    IN  IF ~(MinYear <= year /\ year <= current_year) THEN "Invalid year." ELSE NoExc

valid_fuel == <<"petrol", "diesel", "electric">>

validate_fuel(fuel_type) ==
    IF ~In(fuel_type, valid_fuel) THEN "Invalid fuel type." ELSE NoExc

\* Statements run in order; the first one that raises ends the call.
RECURSIVE FirstRaise(_)
FirstRaise(checks) ==
    IF checks = <<>> THEN NoExc
    ELSE IF Head(checks) /= NoExc THEN Head(checks)
    ELSE FirstRaise(Tail(checks))

\* Vehicle.__init__ with the fuel type validated first.
Vehicle_init_fuel_first(brand, model, year, fuel_type) ==
    LET e == FirstRaise(<< validate_fuel(fuel_type),
                           validate_nonempty(brand, "Brand"),
                           validate_nonempty(model, "Model"),
                           validate_year(year) >>)
    IN  IF e /= NoExc THEN Raise(e, <<>>)
        ELSE Return(None, [brand |-> brand, model |-> model,
                           year |-> year, fuel_type |-> fuel_type])

Vehicle_init(brand, model, year, fuel_type) ==
    LET e == FirstRaise(<< validate_nonempty(brand, "Brand"),
                           validate_nonempty(model, "Model"),
                           validate_year(year),
                           validate_fuel(fuel_type) >>)
    IN  IF e /= NoExc THEN Raise(e, <<>>)
        ELSE Return(None, [brand |-> brand, model |-> model,
                           year |-> year, fuel_type |-> fuel_type])

-----------------------------------------------------------------------------
(* vehicleMixin *)

vehicleMixin_init(self) == self @@ [speed |-> 0, odometer |-> 0]

\* accelerate with the test written `speed < 0`.
accelerate_lt(self, speed) ==
    IF speed < 0
    THEN Raise("Speed can't be negative", self)
    ELSE Return(None, [self EXCEPT !.speed = @ + speed])


accelerate(self, speed) ==
    IF speed <= 0
    THEN Raise("Speed can't be negative", self)
    ELSE Return(None, [self EXCEPT !.speed = @ + speed])

\* brake that also resets the odometer.
brake_all(self) == Return("stopped", [self EXCEPT !.speed = 0, !.odometer = 0])


brake(self) == Return("stopped", [self EXCEPT !.speed = 0])

drive(self, distance) ==
    IF distance <= 0
    THEN Raise("Distance must be greater than zero.", self)
    ELSE Return("drove", [self EXCEPT !.odometer = @ + distance])

-----------------------------------------------------------------------------
(* Motorcycle *)

Motorcycle_init(brand, model, year, fuel_type, engine) ==
    LET v == Vehicle_init(brand, model, year, fuel_type)
    IN  IF v.exc /= NoExc THEN v
        ELSE Return(None, vehicleMixin_init(v.obj)
                            @@ [cls |-> "Motorcycle", engine |-> engine])

\* ride that drives without accelerating.
ride_no_accelerate(self, km) ==
    IF km <= 0
    THEN Raise("Distance must be greater than zero.", self)
    ELSE LET d == drive(self, km)
         IN  IF d.exc /= NoExc THEN d
             ELSE Return("rode", d.obj)


ride(self, km) ==
    IF km <= 0
    THEN Raise("Distance must be greater than zero.", self)
    ELSE LET a == accelerate(self, RideSpeed)
         IN  IF a.exc /= NoExc THEN a
             ELSE LET d == drive(a.obj, km)
                  IN  IF d.exc /= NoExc THEN d
                      ELSE Return("rode", d.obj)

-----------------------------------------------------------------------------
(* Bus *)

\* capacity is stored as given: the constructor checks only the Vehicle fields.
Bus_init(brand, model, year, fuel_type, capacity, engine) ==
    LET v == Vehicle_init(brand, model, year, fuel_type)
    IN  IF v.exc /= NoExc THEN v
        ELSE Return(None, vehicleMixin_init(v.obj)
                            @@ [cls |-> "Bus", capacity |-> capacity,
                                engine |-> engine, passengers |-> <<>>])

\* Acts on the Engine object the bus refers to.
increase_horse_power(engine, hp) ==
    IF hp > 0
    THEN Return("increased", [engine EXCEPT !.horsepower = @ + hp])
    ELSE Return("invalid increment", engine)

\* add_passenger with the test written `<=`.
add_passenger_le(self, name) ==
    IF Len(self.passengers) <= self.capacity
    THEN Return("boarded", [self EXCEPT !.passengers = Append(@, name)])
    ELSE Return("bus full", self)

\* Returns "boarded" for the message that the passenger got on, "bus full" for
\* the message that the bus is full.
add_passenger(self, name) ==
    IF Len(self.passengers) < self.capacity
    THEN Return("boarded", [self EXCEPT !.passengers = Append(@, name)])
    ELSE Return("bus full", self)

\* list.remove(x): drops the first item equal to x
RECURSIVE list_remove(_, _)
list_remove(lst, x) ==
    IF lst = <<>> THEN <<>>
    ELSE IF Head(lst) = x THEN Tail(lst)
    ELSE <<Head(lst)>> \o list_remove(Tail(lst), x)

remove_passenger(self, name) ==
    IF In(name, self.passengers)
    THEN Return("got off", [self EXCEPT !.passengers = list_remove(@, name)])
    ELSE Return("not on this bus", self)

-----------------------------------------------------------------------------
(* Car and SportsCar *)

\* Attribute lookup on a class: its own attribute, else the one inherited from Car.
ClassAttr(attrs, cls) == IF cls \in DOMAIN attrs THEN attrs[cls] ELSE attrs["Car"]

\* setattr(cls, "model_produced", value)
SetClassAttr(attrs, cls, value) ==
    [c \in DOMAIN attrs \cup {cls} |-> IF c = cls THEN value ELSE attrs[c]]

\* cls is type(self): "Car", or "SportsCar" when reached through super().__init__.
\* `attrs` is the class-attribute table before the call, returned updated.
Car_init(cls, attrs, brand, model, year, fuel_type, engine) ==
    LET v == Vehicle_init(brand, model, year, fuel_type)
    IN  IF v.exc /= NoExc THEN v @@ [attrs |-> attrs]
        ELSE Return(None, vehicleMixin_init(v.obj) @@ [cls |-> cls, engine |-> engine])
               @@ [attrs |-> SetClassAttr(attrs, cls, ClassAttr(attrs, cls) + 1)]

SportsCar_init(attrs, brand, model, year, fuel_type, engine) ==
    LET c == Car_init("SportsCar", attrs, brand, model, year, fuel_type, engine)
    IN  IF c.exc /= NoExc THEN c
        ELSE [c EXCEPT !.obj = @ @@ [gear |-> 1]]

\* shift_gear with the lower limit written 0.
shift_gear_from_zero(self, gear) ==
    IF gear < 0 \/ gear > MaxGear
    THEN Raise("Gear must be between 1 and 6.", self)
    ELSE Return(None, [self EXCEPT !.gear = gear])


shift_gear(self, gear) ==
    IF gear < MinGear \/ gear > MaxGear
    THEN Raise("Gear must be between 1 and 6.", self)
    ELSE Return(None, [self EXCEPT !.gear = gear])

-----------------------------------------------------------------------------
(* State machine *)

Call(op, self, args, r, before) ==
    [op |-> op, self |-> self, args |-> args, exc |-> r.exc, ret |-> r.ret,
     before |-> before]

\* No run of drive() calls is in progress.
NoRun == [self |-> 0, distance |-> 0, n |-> 0, from |-> 0]

Init ==
    /\ engines = <<>>
    /\ vehicles = <<>>
    /\ model_produced = [c \in {"Car"} |-> 0]
    /\ last = Call("start", 0, <<>>, Return(None, <<>>), <<>>)
    /\ drives = NoRun

\* A constructor call: the new object joins the heap unless the call raised.
Constructed(heap, r) == IF r.exc = NoExc THEN Append(heap, r.obj) ELSE heap
NewRef(heap, r) == IF r.exc = NoExc THEN Len(heap) + 1 ELSE 0

\* Engine(horsepower, engine_type)
NewEngine(horsepower, engine_type) ==
    LET r == Engine_init(horsepower, engine_type)
    IN  /\ Len(engines) < MaxEngines
        /\ engines' = Constructed(engines, r)
        /\ last' = Call("Engine", NewRef(engines, r),
                        <<horsepower, engine_type>>, r, Len(engines))
        /\ drives' = NoRun
        /\ UNCHANGED <<vehicles, model_produced>>

\* Motorcycle(brand, model, year, fuel_type, engine)
NewMotorcycle(brand, model, year, fuel_type, engine) ==
    LET r == Motorcycle_init(brand, model, year, fuel_type, engine)
    IN  /\ engine \in DOMAIN engines
        /\ vehicles' = Constructed(vehicles, r)
        /\ last' = Call("Motorcycle", NewRef(vehicles, r),
                        <<brand, model, year, fuel_type, engine>>, r, Len(vehicles))
        /\ drives' = NoRun
        /\ UNCHANGED <<engines, model_produced>>

\* Bus(brand, model, year, fuel_type, color, capacity, engine)
NewBus(brand, model, year, fuel_type, capacity, engine) ==
    LET r == Bus_init(brand, model, year, fuel_type, capacity, engine)
    IN  /\ engine \in DOMAIN engines
        /\ vehicles' = Constructed(vehicles, r)
        /\ last' = Call("Bus", NewRef(vehicles, r),
                        <<brand, model, year, fuel_type, engine, capacity>>, r,
                        Len(vehicles))
        /\ drives' = NoRun
        /\ UNCHANGED <<engines, model_produced>>

\* Car(brand, model, year, fuel_type, engine, color, num_doors, license_plate)
NewCar(brand, model, year, fuel_type, engine) ==
    LET r == Car_init("Car", model_produced, brand, model, year, fuel_type, engine)
    IN  /\ engine \in DOMAIN engines
        /\ vehicles' = Constructed(vehicles, r)
        /\ model_produced' = r.attrs
        /\ last' = Call("Car", NewRef(vehicles, r),
                        <<brand, model, year, fuel_type, engine>>, r, Len(vehicles))
        /\ drives' = NoRun
        /\ UNCHANGED engines

\* SportsCar(brand, model, year, fuel_type, engine, color, num_doors, license_plate)
NewSportsCar(brand, model, year, fuel_type, engine) ==
    LET r == SportsCar_init(model_produced, brand, model, year, fuel_type, engine)
    IN  /\ engine \in DOMAIN engines
        /\ vehicles' = Constructed(vehicles, r)
        /\ model_produced' = r.attrs
        /\ last' = Call("SportsCar", NewRef(vehicles, r),
                        <<brand, model, year, fuel_type, engine>>, r, Len(vehicles))
        /\ drives' = NoRun
        /\ UNCHANGED engines

\* vehicles[i].accelerate(speed)
Accelerate(i, speed) ==
    LET r == accelerate(vehicles[i], speed)
    IN  /\ vehicles[i].speed + speed <= MaxSpeed
        /\ vehicles' = [vehicles EXCEPT ![i] = r.obj]
        /\ last' = Call("accelerate", i, <<speed>>, r, vehicles[i])
        /\ drives' = NoRun
        /\ UNCHANGED <<engines, model_produced>>

\* vehicles[i].brake()
Brake(i) ==
    LET r == brake(vehicles[i])
    IN  /\ vehicles' = [vehicles EXCEPT ![i] = r.obj]
        /\ last' = Call("brake", i, <<>>, r, vehicles[i])
        /\ drives' = NoRun
        /\ UNCHANGED <<engines, model_produced>>

\* vehicles[i].drive(distance)
Drive(i, distance) ==
    LET r == drive(vehicles[i], distance)
    IN  /\ vehicles[i].odometer + distance <= MaxOdometer
        /\ vehicles' = [vehicles EXCEPT ![i] = r.obj]
        /\ last' = Call("drive", i, <<distance>>, r, vehicles[i])
        /\ drives' = IF r.exc /= NoExc THEN NoRun
                     ELSE IF drives.n > 0 /\ drives.self = i /\ drives.distance = distance
                     THEN [drives EXCEPT !.n = @ + 1]
                     ELSE [self |-> i, distance |-> distance, n |-> 1,
                           from |-> vehicles[i].odometer]
        /\ UNCHANGED <<engines, model_produced>>

\* vehicles[i].ride(km), i a Motorcycle
Ride(i, km) ==
    LET r == ride(vehicles[i], km)
    IN  /\ vehicles[i].cls = "Motorcycle"
        /\ vehicles[i].speed + RideSpeed <= MaxSpeed
        /\ vehicles[i].odometer + km <= MaxOdometer
        /\ vehicles' = [vehicles EXCEPT ![i] = r.obj]
        /\ last' = Call("ride", i, <<km>>, r, vehicles[i])
        /\ drives' = NoRun
        /\ UNCHANGED <<engines, model_produced>>

\* vehicles[i].increase_horse_power(hp), i a Bus: self._engine.horsepower += hp
IncreaseHorsePower(i, hp) ==
    LET e == vehicles[i].engine
        r == increase_horse_power(engines[e], hp)
    IN  /\ vehicles[i].cls = "Bus"
        /\ engines[e].horsepower + hp <= MaxHorsepower
        /\ engines' = [engines EXCEPT ![e] = r.obj]
        /\ last' = Call("increase_horse_power", i, <<hp>>, r, engines[e])
        /\ drives' = NoRun
        /\ UNCHANGED <<vehicles, model_produced>>

\* vehicles[i].add_passenger(name), i a Bus
AddPassenger(i, name) ==
    LET r == add_passenger(vehicles[i], name)
    IN  /\ vehicles[i].cls = "Bus"
        /\ vehicles' = [vehicles EXCEPT ![i] = r.obj]
        /\ last' = Call("add_passenger", i, <<name>>, r, vehicles[i])
        /\ drives' = NoRun
        /\ UNCHANGED <<engines, model_produced>>

\* vehicles[i].remove_passenger(name), i a Bus
RemovePassenger(i, name) ==
    LET r == remove_passenger(vehicles[i], name)
    IN  /\ vehicles[i].cls = "Bus"
        /\ vehicles' = [vehicles EXCEPT ![i] = r.obj]
        /\ last' = Call("remove_passenger", i, <<name>>, r, vehicles[i])
        /\ drives' = NoRun
        /\ UNCHANGED <<engines, model_produced>>

\* vehicles[i].shift_gear(gear), i a SportsCar
ShiftGear(i, gear) ==
    LET r == shift_gear(vehicles[i], gear)
    IN  /\ vehicles[i].cls = "SportsCar"
        /\ vehicles' = [vehicles EXCEPT ![i] = r.obj]
        /\ last' = Call("shift_gear", i, <<gear>>, r, vehicles[i])
        /\ drives' = NoRun
        /\ UNCHANGED <<engines, model_produced>>

-----------------------------------------------------------------------------
(* Arguments the callers pass *)

Horsepowers == {0, 100}
EngineTypes == {"4-stroke", "petrol"}
Brands == {"", "MAN"}
Models == {"", "M3"}
Years == {MinYear - 1, MinYear, CurrentYear, CurrentYear + 1}
Fuels == {"petrol", "electric", "4-stroke"}
Capacities == {-1, 0, 1, 2}
Names == {"A", "B"}
Speeds == {-1, 0, 40}
Distances == {-1, 0, 25}
HpSteps == {-1, 0, 50}
Gears == (MinGear - 1)..(MaxGear + 1)

\* One vehicle followed through its whole life, every operation of its kind.
NoVehicle == vehicles = <<>>

Next ==
    \/ \E hp \in Horsepowers, t \in EngineTypes : NewEngine(hp, t)
    \/ NoVehicle /\ \E b \in Brands, m \in Models, y \in Years, f \in Fuels,
                       e \in DOMAIN engines : NewMotorcycle(b, m, y, f, e)
    \/ NoVehicle /\ \E b \in Brands, m \in Models, y \in Years, f \in Fuels,
                       c \in Capacities, e \in DOMAIN engines : NewBus(b, m, y, f, c, e)
    \/ NoVehicle /\ \E b \in Brands, m \in Models, y \in Years, f \in Fuels,
                       e \in DOMAIN engines : NewCar(b, m, y, f, e)
    \/ NoVehicle /\ \E b \in Brands, m \in Models, y \in Years, f \in Fuels,
                       e \in DOMAIN engines : NewSportsCar(b, m, y, f, e)
    \/ \E i \in DOMAIN vehicles, s \in Speeds : Accelerate(i, s)
    \/ \E i \in DOMAIN vehicles : Brake(i)
    \/ \E i \in DOMAIN vehicles, d \in Distances : Drive(i, d)
    \/ \E i \in DOMAIN vehicles, d \in Distances : Ride(i, d)
    \/ \E i \in DOMAIN vehicles, h \in HpSteps : IncreaseHorsePower(i, h)
    \/ \E i \in DOMAIN vehicles, n \in Names : AddPassenger(i, n)
    \/ \E i \in DOMAIN vehicles, n \in Names : RemovePassenger(i, n)
    \/ \E i \in DOMAIN vehicles, g \in Gears : ShiftGear(i, g)

Spec == Init /\ [][Next]_vars

\* Several vehicles built over shared engines, and the operation that reaches
\* through a vehicle into its engine.
FleetYears == {MinYear - 1, CurrentYear}

HasRoom == Len(vehicles) < MaxVehicles

NextFleet ==
    \/ \E hp \in Horsepowers, t \in EngineTypes : NewEngine(hp, t)
    \/ HasRoom /\ \E y \in FleetYears, e \in DOMAIN engines :
                     NewMotorcycle("MAN", "M3", y, "petrol", e)
    \/ HasRoom /\ \E y \in FleetYears, e \in DOMAIN engines :
                     NewBus("MAN", "M3", y, "petrol", 1, e)
    \/ HasRoom /\ \E y \in FleetYears, e \in DOMAIN engines :
                     NewCar("MAN", "M3", y, "petrol", e)
    \/ HasRoom /\ \E y \in FleetYears, e \in DOMAIN engines :
                     NewSportsCar("MAN", "M3", y, "petrol", e)
    \/ \E i \in DOMAIN vehicles, h \in HpSteps : IncreaseHorsePower(i, h)

SpecFleet == Init /\ [][NextFleet]_vars
-----------------------------------------------------------------------------
(* Properties *)

\* The object the last call acted on, as the call left it.
Self == vehicles[last.self]

VehicleKinds == {"Motorcycle", "Bus", "Car", "SportsCar"}
CarKinds == {"Car", "SportsCar"}

\* C1: Car.model_produced equals the number of Car instances plus the number
\* of SportsCar instances that were successfully constructed.
C1_CountsEveryCar ==
    model_produced["Car"] =
        Cardinality({i \in DOMAIN vehicles : vehicles[i].cls \in CarKinds})

\* C2: add_passenger(name) never raises; it appends name at the end of the
\* roster exactly when the roster was shorter than the capacity, and otherwise
\* returns the bus-full result and leaves the roster as it was.
C2_AddPassenger ==
    last.op = "add_passenger" =>
        /\ last.exc = NoExc
        /\ IF Len(last.before.passengers) < last.before.capacity
           THEN /\ Self.passengers = Append(last.before.passengers, last.args[1])
                /\ last.ret = "boarded"
           ELSE /\ Self.passengers = last.before.passengers
                /\ last.ret = "bus full"
        /\ [Self EXCEPT !.passengers = last.before.passengers] = last.before

\* A full bus of two passengers with the same name has just refused a third.
C2_Witness ==
    /\ last.op = "add_passenger"
    /\ last.ret = "bus full"
    /\ Self.capacity = 2
    /\ Self.passengers = <<"A", "A">>
    /\ last.args[1] = "B"

\* C3: every Bus holds at most `capacity` passengers, from construction on.
C3_WithinCapacity ==
    \A i \in DOMAIN vehicles :
        vehicles[i].cls = "Bus" => Len(vehicles[i].passengers) <= vehicles[i].capacity

\* The error a construction must end with: that of the earliest invalid field
\* in the order brand, model, year, fuel type.
EarliestInvalid(brand, model, year, fuel_type) ==
    IF brand = "" THEN "Brand cannot be empty."
    ELSE IF model = "" THEN "Model cannot be empty."
    ELSE IF year < 1900 \/ year > CurrentYear THEN "Invalid year."
    ELSE IF fuel_type \notin {"petrol", "diesel", "electric"} THEN "Invalid fuel type."
    ELSE NoExc

\* C4: a vehicle construction fails with the error of the earliest invalid
\* field in the order brand, model, year, fuel type, and succeeds (one new
\* vehicle, carrying the four fields) only when all four are valid.
C4_FirstInvalidField ==
    last.op \in VehicleKinds =>
        LET expected == EarliestInvalid(last.args[1], last.args[2],
                                        last.args[3], last.args[4])
        IN  /\ last.exc = expected
            /\ IF expected = NoExc
               THEN /\ Len(vehicles) = last.before + 1
                    /\ last.self = Len(vehicles)
                    /\ Self.cls = last.op
                    /\ <<Self.brand, Self.model, Self.year, Self.fuel_type>>
                         = SubSeq(last.args, 1, 4)
               ELSE /\ Len(vehicles) = last.before
                    /\ last.self = 0

\* A construction with an empty model, a year out of range and an unknown
\* fuel type has failed on the model.
C4_Witness ==
    /\ last.op = "Bus"
    /\ last.args[1] = "MAN"
    /\ last.args[2] = ""
    /\ last.args[3] = CurrentYear + 1
    /\ last.args[4] = "4-stroke"
    /\ last.exc = "Model cannot be empty."

\* C5: speed is never negative, no step lowers an odometer, and brake() sets
\* the speed to 0 and leaves the odometer alone.
C5_SpeedAndOdometer ==
    [][\A i \in DOMAIN vehicles' :
          /\ vehicles'[i].speed >= 0
          /\ i \in DOMAIN vehicles => vehicles'[i].odometer >= vehicles[i].odometer
          /\ (last'.op = "brake" /\ last'.self = i) =>
                /\ vehicles'[i].speed = 0
                /\ vehicles'[i].odometer = vehicles[i].odometer]_vars

\* brake() has just stopped a moving vehicle that had driven and been
\* accelerated.
C5_Witness ==
    /\ last.op = "brake"
    /\ last.before.speed > 0
    /\ last.before.odometer > 0
    /\ Self.speed = 0
    /\ Self.odometer = last.before.odometer

\* C6: accelerate and drive raise on an argument <= 0 and change nothing;
\* otherwise accelerate adds the argument to speed only and drive adds it to
\* odometer only, so n drive(d) calls in a row add n*d.
C6_AccelerateAndDrive ==
    /\ last.op = "accelerate" =>
          IF last.args[1] <= 0
          THEN last.exc /= NoExc /\ Self = last.before
          ELSE /\ last.exc = NoExc
               /\ Self.speed = last.before.speed + last.args[1]
               /\ [Self EXCEPT !.speed = last.before.speed] = last.before
    /\ last.op = "drive" =>
          IF last.args[1] <= 0
          THEN last.exc /= NoExc /\ Self = last.before
          ELSE /\ last.exc = NoExc
               /\ Self.odometer = last.before.odometer + last.args[1]
               /\ [Self EXCEPT !.odometer = last.before.odometer] = last.before
    /\ drives.n > 0 =>
          vehicles[drives.self].odometer = drives.from + drives.n * drives.distance

\* Three drive(25) calls in a row on a vehicle that was already moving.
C6_Witness ==
    /\ last.op = "drive"
    /\ drives.n = 3
    /\ drives.distance = 25
    /\ Self.speed > 0
    /\ Self.odometer = drives.from + 75

\* C7: ride(km) with km > 0 leaves the motorcycle as accelerate(60) followed
\* by drive(km) would (speed 60 and odometer km on a new motorcycle); with
\* km <= 0 it raises and changes nothing.
C7_Ride ==
    last.op = "ride" =>
        IF last.args[1] > 0
        THEN /\ last.exc = NoExc
             /\ Self = drive(accelerate(last.before, 60).obj, last.args[1]).obj
             /\ Self.speed = last.before.speed + 60
             /\ Self.odometer = last.before.odometer + last.args[1]
             /\ [Self EXCEPT !.speed = last.before.speed,
                             !.odometer = last.before.odometer] = last.before
             /\ (last.before.speed = 0 /\ last.before.odometer = 0) =>
                    (Self.speed = 60 /\ Self.odometer = last.args[1])
        ELSE last.exc /= NoExc /\ Self = last.before

\* A new motorcycle has just been ridden 25 km.
C7_Witness ==
    /\ last.op = "ride"
    /\ last.before.speed = 0
    /\ last.before.odometer = 0
    /\ Self.cls = "Motorcycle"
    /\ Self.speed = 60
    /\ Self.odometer = 25

\* C8: no Engine is referenced by two vehicles.
C8_ExclusiveEngine ==
    \A i, j \in DOMAIN vehicles : i /= j => vehicles[i].engine /= vehicles[j].engine

\* C9: every Engine has horsepower > 0; construction with horsepower <= 0
\* fails; increase_horse_power(hp) never raises, adds hp when hp > 0 and
\* otherwise returns the invalid-increment result and changes nothing.
C9_PositiveHorsepower ==
    /\ \A e \in DOMAIN engines : engines[e].horsepower > 0
    /\ (last.op = "Engine" /\ last.args[1] <= 0) =>
          last.exc /= NoExc /\ Len(engines) = last.before
    /\ last.op = "increase_horse_power" =>
          /\ last.exc = NoExc
          /\ IF last.args[1] > 0
             THEN /\ engines[Self.engine].horsepower
                       = last.before.horsepower + last.args[1]
                  /\ last.ret = "increased"
             ELSE /\ engines[Self.engine] = last.before
                  /\ last.ret = "invalid increment"

\* An engine of 150 HP after one increase has just refused an increment of 0.
C9_Witness ==
    /\ last.op = "increase_horse_power"
    /\ last.args[1] = 0
    /\ last.ret = "invalid increment"
    /\ engines[Self.engine].horsepower = 150

\* C10: a SportsCar's gear is in 1..6: 1 after construction, g after
\* shift_gear(g) with 1 <= g <= 6, unchanged after a shift_gear that raises.
C10_Gear ==
    /\ \A i \in DOMAIN vehicles :
          vehicles[i].cls = "SportsCar" => vehicles[i].gear \in 1..6
    /\ (last.op = "SportsCar" /\ last.exc = NoExc) => Self.gear = 1
    /\ last.op = "shift_gear" =>
          IF 1 <= last.args[1] /\ last.args[1] <= 6
          THEN last.exc = NoExc /\ Self.gear = last.args[1]
          ELSE last.exc /= NoExc /\ Self.gear = last.before.gear

\* shift_gear(7) has just been refused in sixth gear.
C10_Witness ==
    /\ last.op = "shift_gear"
    /\ last.args[1] = 7
    /\ last.exc = "Gear must be between 1 and 6."
    /\ Self.gear = 6
====
